---- MODULE Spec2Model ----
(***************************************************************************)
(* AuthenticationService of api/src/services/authentication.ts: login,     *)
(* refresh and logout as concurrent request handlers over the shared       *)
(* record store (directus_users, directus_sessions, directus_shares), the  *)
(* process-wide login-attempts limiter and the settings singleton.         *)
(* Every await of the source that touches shared state is a step of its    *)
(* own, so that two requests interleave exactly where the code suspends.   *)
(***************************************************************************)
EXTENDS Integers, Sequences, FiniteSets, TLC

\* ------------------------------------------------------------------ bounds
\* concurrent requests in flight
MaxProc == 2
\* the clock runs from 0 to MaxTime
MaxTime == 2
\* largest value of the auth_login_attempts setting
MaxBudget == 1
\* requests the model follows from call to return
MaxCalls == 2

\* ------------------------------------------------------- program constants
\* ms(env.REFRESH_TOKEN_TTL), in clock ticks
REFRESH_TOKEN_TTL == 1

\* ------------------------------------------------------------ JS values
Null == "null"
Undefined == "undefined"
\* SQL NULL / JS null in an integer column or setting
NullInt == -1
\* the empty string as a refresh token
NoToken == 0

\* !x of JavaScript, for the string values the model passes around
Falsy(x) == x \in {Undefined, Null, ""}

Proc == 1..MaxProc

\* ------------------------------------------------------------ static rows
DEFAULT_AUTH_PROVIDER == "default"
\* the providers registered with getAuthProvider
Providers == {DEFAULT_AUTH_PROVIDER, "ldap"}
ProviderNames == Providers \cup {"ghost"}

Users == {"u1"}
\* directus_roles
Roles == {"editor", "viewer"}
RoleRow(r) == [id |-> r, admin_access |-> FALSE, app_access |-> (r = "editor")]

\* the columns of directus_users this service reads and never writes, but for
\* tfa_secret, which is part of the state
UserRow(u) ==
    [id |-> u,
     password |-> "secret",
     role |-> "editor",
     provider |-> DEFAULT_AUTH_PROVIDER]

\* directus_shares (read-only here)
\* sh1 never expires, sh2 expires when the clock leaves 0
Shares == {"sh1", "sh2"}
ShareRow(d) ==
    [id |-> d, collection |-> "articles", item |-> "42", role |-> "viewer",
     date_expired |-> IF d = "sh1" THEN NullInt ELSE 0]

\* the one-time code the second-factor verifier accepts
GoodOTP == "123456"
Otps == {Undefined, "", GoodOTP, "000000"}
Passwords == {"secret", "wrong"}
\* what provider.getUserID can make of a payload
Identifiers == Users \cup {"nobody"}
\* an argument the handler has not looked at yet
Unread == "unread"

\* ------------------------------------------------------------------ state
VARIABLES
    users,                 \* directus_users: id -> [status, tfa_secret, last_access]
    sessions,              \* directus_sessions: set of rows
    consumed,              \* loginAttemptsLimiter: consumed points per key
    auth_login_attempts,   \* directus_settings.auth_login_attempts
    now,                   \* the wall clock (Date.now(), knex.fn.now())
    nextToken,             \* the next value nanoid(64) returns
    issued,                \* refresh tokens callers hold (returned to them)
    calls,                 \* requests started so far
    failures,              \* per user: login calls failed in a row
    frame                  \* per request: the handler's locals and position

vars == <<users, sessions, consumed, auth_login_attempts, now,
          nextToken, issued, failures, frame, calls>>

\* user?.x of an absent row
UndefinedUser ==
    [id |-> Undefined, status |-> Undefined, role |-> Undefined,
     admin_access |-> FALSE, app_access |-> FALSE, tfa_secret |-> Undefined,
     provider |-> Undefined, password |-> Undefined]

NoClaims ==
    [id |-> Undefined, role |-> Undefined, app_access |-> FALSE,
     admin_access |-> FALSE, share_scope |-> <<>>]

\* no row: !record
NoRecord ==
    [found |-> FALSE, session_expires |-> NullInt, user_id |-> Null,
     user_status |-> Null, user_provider |-> Null, role_id |-> Null,
     role_admin_access |-> FALSE, role_app_access |-> FALSE,
     share_id |-> Null, share_item |-> Null, share_collection |-> Null,
     share_expires |-> NullInt]

NoResult ==
    [kind |-> "pending", message |-> "", accessToken |-> NoClaims,
     refreshToken |-> NoToken, id |-> Undefined]

\* a request slot with no handler running; effects keeps what the call has
\* written so far: "consume", "status", "reset", "session", "last_access"
IdleFrame ==
    [op |-> "idle", pc |-> "idle",
     providerName |-> "", id |-> "", password |-> Unread, otp |-> Unread,
     user |-> UndefinedUser,
     allowedAttempts |-> NullInt,
     rejected |-> FALSE,
     refreshToken |-> NoToken,
     newRefreshToken |-> NoToken,
     refreshTokenExpiration |-> NullInt,
     issuedAt |-> NullInt,
     record |-> NoRecord,
     stalls |-> 0,
     emitted |-> <<>>,
     effects |-> {},
     priorFailures |-> 0,
     after |-> FALSE,
     result |-> NoResult]

\* the sessions open before the first request of the model: one an earlier
\* login of u1 left, the others opened through the share links
InitialSessions ==
    {[token |-> 1, user |-> Null, share |-> "sh1", expires |-> REFRESH_TOKEN_TTL],
     [token |-> 2, user |-> "u1", share |-> Null, expires |-> REFRESH_TOKEN_TTL],
     [token |-> 3, user |-> Null, share |-> "sh2", expires |-> REFRESH_TOKEN_TTL]}

\* the points a key holds were consumed within the budget in force: a consume
\* beyond it is followed by the reset
Init ==
    /\ users \in [Users -> [status : {"active", "invited", "suspended"},
                            tfa_secret : {Null, "tfa"},
                            last_access : {NullInt}]]
    /\ sessions = InitialSessions
    /\ consumed \in [Users -> 0..MaxBudget]
    /\ auth_login_attempts \in {NullInt} \cup 1..MaxBudget
    /\ \A u \in Users :
          auth_login_attempts # NullInt => consumed[u] <= auth_login_attempts
    /\ now = 0
    /\ nextToken = 4
    /\ issued = {1, 2, 3}
    /\ failures = consumed
    /\ frame = [p \in Proc |-> IdleFrame]
    /\ calls = 0

\* requests are interchangeable: a new one takes the lowest free slot
freeSlot(p) ==
    /\ calls < MaxCalls
    /\ frame[p].op = "idle"
    /\ \A q \in Proc : q < p => frame[q].op # "idle"

\* --------------------------------------------------------- collaborators
\* getAuthProvider(name): throws for a name no provider is registered under
providerConfigured(providerName) == providerName \in Providers

\* provider.login(user, payload): the credential check; TRUE when it passes
providerLogin(user, password) == user.password = password

\* tfaService.verifyOTP(user.id, otp)
verifyOTP(id, otp) == otp = GoodOTP

\* loginAttemptsLimiter.consume(key): one more point on the key
limiterConsume(c, key) == [c EXCEPT ![key] = @ + 1]

\* consume rejects once the key holds more points than limiter.points
limiterRejects(c, pts, key) == c[key] > pts

\* loginAttemptsLimiter.set(key, 0, 0)
limiterSet(c, key) == [c EXCEPT ![key] = 0]

\* stall(STALL_TIME, timeStart): one pass through the timing normalizer; the
\* model counts the passes, not the milliseconds
stall(f) == [f EXCEPT !.stalls = @ + 1]

\* ------------------------------------------------------------------ login
\* a lookup by identifier alone, whatever provider the user belongs to
selectUserAnyProvider(id, providerName) ==
    IF id \in Users /\ UserRow(id).role \in Roles
    THEN [id |-> id,
          status |-> users[id].status,
          role |-> UserRow(id).role,
          admin_access |-> RoleRow(UserRow(id).role).admin_access,
          app_access |-> RoleRow(UserRow(id).role).app_access,
          tfa_secret |-> users[id].tfa_secret,
          provider |-> UserRow(id).provider,
          password |-> UserRow(id).password]
    ELSE UndefinedUser

\* the user+role row of lines 61-81, or undefined
selectUser(id, providerName) ==
    IF /\ id \in Users
       /\ UserRow(id).provider = providerName
       /\ UserRow(id).role \in Roles
    THEN [id |-> id,
          status |-> users[id].status,
          role |-> UserRow(id).role,
          admin_access |-> RoleRow(UserRow(id).role).admin_access,
          app_access |-> RoleRow(UserRow(id).role).app_access,
          tfa_secret |-> users[id].tfa_secret,
          provider |-> UserRow(id).provider,
          password |-> UserRow(id).password]
    ELSE UndefinedUser

\* a handler that emits no auth.login action
emitNothing(f, status) == f

\* lines 98-113: emitter.emitAction('auth.login', {status, ...})
emitStatus(f, status) == [f EXCEPT !.emitted = Append(@, status)]

\* a failure branch that throws without awaiting stall
failWithoutStall(f, kind, message) ==
    [emitStatus(f, "fail") EXCEPT
        !.pc = "done", !.result.kind = kind, !.result.message = message]

\* emitStatus('fail'); await stall(...); throw: the throw is pending until
\* the stall step has run
failAfterStall(f, kind, message) ==
    [emitStatus(f, "fail") EXCEPT
        !.pc = "stall", !.result.kind = kind, !.result.message = message]

\* a check that takes only a missing code, not an empty one, for no code
otpRequiredUnlessEmpty(user, otp) == ~Falsy(user.tfa_secret) /\ otp = Undefined

\* user.tfa_secret && !otp
otpRequired(user, otp) == ~Falsy(user.tfa_secret) /\ Falsy(otp)

\* user.tfa_secret && otp, then otpValid === false
otpInvalid(user, otp) ==
    ~Falsy(user.tfa_secret) /\ ~Falsy(otp) /\ verifyOTP(user.id, otp) = FALSE

\* an expiry that leaves the TTL out
expirationWithoutTTL(t) == t

\* new Date(Date.now() + ms(env.REFRESH_TOKEN_TTL))
expiration(t) == t + REFRESH_TOKEN_TTL

\* an insert that leaves the user column out
loginSessionWithoutUser(user, token, expires) ==
    [token |-> token, user |-> Null, share |-> Null, expires |-> expires]

\* the session row login inserts
loginSession(user, token, expires) ==
    [token |-> token, user |-> user.id, share |-> Null, expires |-> expires]

\* .delete().where('expires', '<', new Date())
sweep(rows, t) == {s \in rows : ~(s.expires < t)}

loginClaims(user) ==
    [id |-> user.id, role |-> user.role, app_access |-> user.app_access,
     admin_access |-> user.admin_access, share_scope |-> <<>>]

Others == <<users, sessions, consumed, auth_login_attempts, now,
            nextToken, issued, failures>>

\* lines 51-59: the call; an unknown provider name throws at once.  The
\* password and the one-time code are drawn where the handler first reads
\* them (login_provider).
login(p) ==
    /\ freeSlot(p)
    /\ \E providerName \in ProviderNames, id \in Identifiers :
         LET f == [IdleFrame EXCEPT
                      !.op = "login", !.providerName = providerName, !.id = id,
                      !.priorFailures = IF id \in Users THEN failures[id] ELSE 0]
         IN frame' = [frame EXCEPT ![p] =
                IF providerConfigured(providerName)
                THEN [f EXCEPT !.pc = "select"]
                ELSE [f EXCEPT !.pc = "done",
                               !.result.kind = "ConfigurationError"]]
    /\ calls' = calls + 1
    /\ UNCHANGED Others

\* lines 61-125: load the user, run the auth.login filter, check the status
login_select(p) ==
    /\ frame[p].op = "login" /\ frame[p].pc = "select"
    /\ LET f == frame[p]
           user == selectUser(f.id, f.providerName)
           g == [f EXCEPT !.user = user]
       IN frame' = [frame EXCEPT ![p] =
              IF user.status # "active"
              THEN IF user.status = "suspended"
                   THEN failAfterStall(g, "UserSuspended", "")
                   ELSE failAfterStall(g, "InvalidCredentials", "")
              ELSE [g EXCEPT !.pc = "settings"]]
    /\ UNCHANGED <<Others, calls>>

\* lines 127-136: read the attempt budget
login_settings(p) ==
    /\ frame[p].op = "login" /\ frame[p].pc = "settings"
    /\ frame' = [frame EXCEPT ![p] =
           [@ EXCEPT !.allowedAttempts = auth_login_attempts,
                     !.pc = IF auth_login_attempts # NullInt
                            THEN "consume" ELSE "provider"]]
    /\ UNCHANGED <<Others, calls>>

\* a consume that compares the points held before this attempt's own
login_consumeStale(p) ==
    /\ frame[p].op = "login" /\ frame[p].pc = "consume"
    /\ LET f == frame[p]
           rejected == limiterRejects(consumed, f.allowedAttempts, f.user.id)
       IN /\ consumed' = limiterConsume(consumed, f.user.id)
          /\ frame' = [frame EXCEPT ![p] =
                 [@ EXCEPT !.rejected = rejected,
                           !.effects = @ \cup {"consume"},
                           !.pc = IF rejected THEN "suspend" ELSE "provider"]]
    /\ UNCHANGED <<users, sessions, auth_login_attempts, now, nextToken, issued,
                   failures, calls>>

\* lines 137-141: limiter.points = allowedAttempts, then consume one point;
\* nothing runs between the assignment and the consume that reads it
login_consume(p) ==
    /\ frame[p].op = "login" /\ frame[p].pc = "consume"
    /\ LET f == frame[p]
           c == limiterConsume(consumed, f.user.id)
           rejected == limiterRejects(c, f.allowedAttempts, f.user.id)
       IN /\ consumed' = c
          /\ frame' = [frame EXCEPT ![p] =
                 [@ EXCEPT !.rejected = rejected,
                           !.effects = @ \cup {"consume"},
                           !.pc = IF rejected THEN "suspend" ELSE "provider"]]
    /\ UNCHANGED <<users, sessions, auth_login_attempts, now, nextToken, issued,
                   failures, calls>>

\* lines 142-143: the limiter rejected: suspend the user
login_suspend(p) ==
    /\ frame[p].op = "login" /\ frame[p].pc = "suspend"
    /\ users' = [users EXCEPT ![frame[p].user.id].status = "suspended"]
    /\ frame' = [frame EXCEPT ![p] =
           [@ EXCEPT !.user.status = "suspended",
                     !.effects = @ \cup {"status"}, !.pc = "limiterSet"]]
    /\ UNCHANGED <<sessions, consumed, auth_login_attempts, now,
                   nextToken, issued, failures, calls>>

\* a catch block that suspends the user and leaves the key as it is
login_limiterSetSkipped(p) ==
    /\ frame[p].op = "login" /\ frame[p].pc = "limiterSet"
    /\ frame' = [frame EXCEPT ![p] = [@ EXCEPT !.pc = "provider"]]
    /\ UNCHANGED <<Others, calls>>

\* lines 145-146: and clear the key
login_limiterSet(p) ==
    /\ frame[p].op = "login" /\ frame[p].pc = "limiterSet"
    /\ consumed' = limiterSet(consumed, frame[p].user.id)
    /\ frame' = [frame EXCEPT ![p] =
           [@ EXCEPT !.effects = @ \cup {"reset"}, !.pc = "provider"]]
    /\ UNCHANGED <<users, sessions, auth_login_attempts, now,
                   nextToken, issued, failures, calls>>

\* a credential check that stamps last_access before it checks anything
login_providerStamping(p) ==
    /\ frame[p].op = "login" /\ frame[p].pc = "provider"
    /\ users' = [users EXCEPT ![frame[p].user.id].last_access = now]
    /\ \E password \in Passwords, otp \in Otps :
         LET f == [frame[p] EXCEPT !.password = password, !.otp = otp,
                                   !.effects = @ \cup {"last_access"}]
         IN frame' = [frame EXCEPT ![p] =
                IF ~providerLogin(f.user, f.password)
                THEN failAfterStall(f, "InvalidCredentials", "")
                ELSE IF otpRequired(f.user, f.otp)
                THEN failAfterStall(f, "InvalidOTP", "required")
                ELSE IF otpInvalid(f.user, f.otp)
                THEN failAfterStall(f, "InvalidOTP", "invalid")
                ELSE [f EXCEPT !.pc = "insert"]]
    /\ UNCHANGED <<sessions, consumed, auth_login_attempts, now, nextToken,
                   issued, failures, calls>>

\* lines 150-173: the provider's credential check, then the second factor
login_provider(p) ==
    /\ frame[p].op = "login" /\ frame[p].pc = "provider"
    /\ \E password \in Passwords, otp \in Otps :
         LET f == [frame[p] EXCEPT !.password = password, !.otp = otp]
         IN frame' = [frame EXCEPT ![p] =
                IF ~providerLogin(f.user, f.password)
                THEN failAfterStall(f, "InvalidCredentials", "")
                ELSE IF otpRequired(f.user, f.otp)
                THEN failAfterStall(f, "InvalidOTP", "required")
                ELSE IF otpInvalid(f.user, f.otp)
                THEN failAfterStall(f, "InvalidOTP", "invalid")
                ELSE [f EXCEPT !.pc = "insert"]]
    /\ UNCHANGED <<Others, calls>>

\* lines 175-212: claims, access token, refresh token, the session row
login_insert(p) ==
    /\ frame[p].op = "login" /\ frame[p].pc = "insert"
    /\ LET f == frame[p]
           refreshToken == nextToken
           refreshTokenExpiration == expiration(now)
       IN /\ nextToken' = nextToken + 1
          /\ sessions' = sessions \cup
                 {loginSession(f.user, refreshToken, refreshTokenExpiration)}
          /\ frame' = [frame EXCEPT ![p] =
                 [@ EXCEPT !.newRefreshToken = refreshToken,
                           !.refreshTokenExpiration = refreshTokenExpiration,
                           !.issuedAt = now,
                           !.result.accessToken = loginClaims(f.user),
                           !.effects = @ \cup {"session"},
                           !.pc = "sweep"]]
    /\ UNCHANGED <<users, consumed, auth_login_attempts, now, issued,
                   failures, calls>>

\* line 214: delete the expired sessions
login_sweep(p) ==
    /\ frame[p].op = "login" /\ frame[p].pc = "sweep"
    /\ sessions' = sweep(sessions, now)
    /\ frame' = [frame EXCEPT ![p] = [@ EXCEPT !.pc = "last_access"]]
    /\ UNCHANGED <<users, consumed, auth_login_attempts, now,
                   nextToken, issued, failures, calls>>

\* lines 216-227: the activity record and last_access
login_last_access(p) ==
    /\ frame[p].op = "login" /\ frame[p].pc = "last_access"
    /\ users' = [users EXCEPT ![frame[p].user.id].last_access = now]
    /\ frame' = [frame EXCEPT ![p] =
           [@ EXCEPT !.effects = @ \cup {"last_access"}, !.pc = "reset"]]
    /\ UNCHANGED <<sessions, consumed, auth_login_attempts, now,
                   nextToken, issued, failures, calls>>

\* a success path that clears the key whatever the budget read
resetAlways(c, allowedAttempts, key) == limiterSet(c, key)

\* a success path that leaves the key as it is
resetSkipped(c, allowedAttempts, key) == c

\* lines 231-233: if (allowedAttempts !== null) limiter.set(user.id, 0, 0)
resetAfterSuccess(c, allowedAttempts, key) ==
    IF allowedAttempts # NullInt THEN limiterSet(c, key) ELSE c

\* lines 229-233: the success event, then the limiter reset
login_reset(p) ==
    /\ frame[p].op = "login" /\ frame[p].pc = "reset"
    /\ LET f == frame[p]
       IN /\ consumed' = resetAfterSuccess(consumed, f.allowedAttempts, f.user.id)
          /\ frame' = [frame EXCEPT ![p] =
                 [emitStatus(f, "success") EXCEPT
                     !.effects = IF f.allowedAttempts # NullInt
                                 THEN @ \cup {"reset"} ELSE @,
                     !.pc = "stall", !.result.kind = "ok",
                     !.result.refreshToken = f.newRefreshToken,
                     !.result.id = f.user.id]]
    /\ UNCHANGED <<users, sessions, auth_login_attempts, now,
                   nextToken, issued, failures, calls>>

\* login calls failed in a row, counted up to the largest budget
countFailure(n) == IF n < MaxBudget THEN n + 1 ELSE n

\* lines 119-124, 154-155, 160-161, 170-171, 235-243: the stall every exit
\* awaits, then the throw or the return
login_stall(p) ==
    /\ frame[p].op = "login" /\ frame[p].pc = "stall"
    /\ LET f == frame[p]
       IN /\ frame' = [frame EXCEPT ![p] = [stall(f) EXCEPT !.pc = "done"]]
          /\ failures' = IF f.id \notin Users THEN failures
                         ELSE IF f.result.kind = "ok"
                         THEN [failures EXCEPT ![f.id] = 0]
                         ELSE [failures EXCEPT ![f.id] = countFailure(@)]
    /\ UNCHANGED <<users, sessions, consumed, auth_login_attempts, now,
                   nextToken, issued, calls>>

\* the caller receives the answer, and with it the refresh token of a
\* successful login or refresh; the slot is free for the next request
Return(p) ==
    /\ frame[p].pc = "done"
    /\ frame' = [frame EXCEPT ![p] = IdleFrame]
    /\ issued' = IF frame[p].result.kind = "ok"
                  THEN issued \cup ({frame[p].result.refreshToken} \ {NoToken})
                  ELSE issued
    /\ UNCHANGED <<users, sessions, consumed, auth_login_attempts, now,
                   nextToken, failures, calls>>

\* ---------------------------------------------------------------- refresh
\* the tokens a caller can present: those handed to callers, or none
Presentable == issued \cup {NoToken}

\* record.x of a column the query did not select
field(record, name) ==
    IF name \in DOMAIN record THEN record[name] ELSE Undefined

\* a filter that leaves the share's expiry out
unexpiredSession(s, t) == s.expires >= t

\* lines 277-280: s.expires >= now and (d.date_expired is null or
\* d.date_expired >= now); a session without a share joins a null d
unexpired(s, t) ==
    /\ s.expires >= t
    /\ \/ s.share \notin Shares
       \/ ShareRow(s.share).date_expired = NullInt
       \/ ShareRow(s.share).date_expired >= t

\* lines 250-281: the session joined to its user, share and role, filtered
\* to an unexpired session and an unexpired (or never expiring) share
refreshSelect(token, t) ==
    LET live == {s \in sessions : s.token = token /\ unexpired(s, t)}
    IN IF live = {} THEN NoRecord
       ELSE LET s == CHOOSE x \in live : TRUE
                u == s.user \in Users
                d == s.share \in Shares
                r == IF u THEN UserRow(s.user).role
                     ELSE IF d THEN ShareRow(s.share).role ELSE Null
            IN [found |-> TRUE,
                session_expires |-> s.expires,
                user_id |-> IF u THEN s.user ELSE Null,
                user_status |-> IF u THEN users[s.user].status ELSE Null,
                user_provider |-> IF u THEN UserRow(s.user).provider ELSE Null,
                role_id |-> r,
                role_admin_access |-> r \in Roles /\ RoleRow(r).admin_access,
                role_app_access |-> r \in Roles /\ RoleRow(r).app_access,
                share_id |-> IF d THEN s.share ELSE Null,
                share_item |-> IF d THEN ShareRow(s.share).item ELSE Null,
                share_collection |->
                    IF d THEN ShareRow(s.share).collection ELSE Null,
                share_expires |->
                    IF d THEN ShareRow(s.share).date_expired ELSE NullInt]

\* provider.refresh(user) of the default provider: nothing to revalidate
providerRefresh(record) == TRUE

\* lines 306-319: the token payload
refreshClaims(record) ==
    [id |-> record.user_id,
     role |-> IF ~Falsy(record.share_id)
              THEN field(record, "share_role") ELSE record.role_id,
     app_access |-> record.role_app_access,
     admin_access |-> record.role_admin_access,
     share_scope |-> IF ~Falsy(record.share_id)
                     THEN <<record.share_collection, record.share_item>>
                     ELSE <<>>]

\* lines 345-350: .update({token, expires}).where({token: refreshToken})
rotate(rows, old, new, expires) ==
    {IF s.token = old THEN [s EXCEPT !.token = new, !.expires = expires] ELSE s
       : s \in rows}

\* a logout of the same token has completed before this call
followsLogout(p, token) ==
    \E q \in Proc \ {p} :
        /\ frame[q].op = "logout" /\ frame[q].pc = "done"
        /\ frame[q].refreshToken = token

\* lines 245-248: the call; a missing token throws at once
refresh(p) ==
    /\ freeSlot(p)
    /\ \E refreshToken \in Presentable :
         LET f == [IdleFrame EXCEPT !.op = "refresh",
                                    !.refreshToken = refreshToken,
                                    !.after = followsLogout(p, refreshToken)]
         IN frame' = [frame EXCEPT ![p] =
                IF refreshToken = NoToken
                THEN [f EXCEPT !.pc = "done",
                               !.result.kind = "InvalidCredentials"]
                ELSE [f EXCEPT !.pc = "select"]]
    /\ calls' = calls + 1
    /\ UNCHANGED Others

\* lines 250-285: look the session up
refresh_select(p) ==
    /\ frame[p].op = "refresh" /\ frame[p].pc = "select"
    /\ LET f == frame[p]
           record == refreshSelect(f.refreshToken, now)
       IN frame' = [frame EXCEPT ![p] =
              IF \/ ~record.found
                 \/ Falsy(record.share_id) /\ Falsy(record.user_id)
              THEN [f EXCEPT !.pc = "done",
                             !.result.kind = "InvalidCredentials"]
              ELSE [f EXCEPT !.record = record, !.pc = "provider"]]
    /\ UNCHANGED <<Others, calls>>

\* lines 287-335: the provider's revalidation, the payload, the auth.jwt filter
refresh_provider(p) ==
    /\ frame[p].op = "refresh" /\ frame[p].pc = "provider"
    /\ LET f == frame[p]
       IN frame' = [frame EXCEPT ![p] =
              IF ~Falsy(f.record.user_id) /\ ~providerRefresh(f.record)
              THEN [f EXCEPT !.pc = "done",
                             !.result.kind = "InvalidCredentials"]
              ELSE [f EXCEPT !.result.accessToken = refreshClaims(f.record),
                             !.pc = "update"]]
    /\ UNCHANGED <<Others, calls>>

\* what refresh returns (lines 356-361)
refreshResult(f) ==
    [f EXCEPT !.pc = "done", !.result.kind = "ok",
              !.result.refreshToken = f.newRefreshToken,
              !.result.id = f.record.user_id]

\* lines 337-350: a new token and expiry written over the row that holds the
\* presented token; a share-based session returns from here
refresh_update(p) ==
    /\ frame[p].op = "refresh" /\ frame[p].pc = "update"
    /\ LET newRefreshToken == nextToken
           refreshTokenExpiration == expiration(now)
           f == [frame[p] EXCEPT
                    !.newRefreshToken = newRefreshToken,
                    !.refreshTokenExpiration = refreshTokenExpiration,
                    !.issuedAt = now]
       IN /\ nextToken' = nextToken + 1
          /\ sessions' = rotate(sessions, f.refreshToken, newRefreshToken,
                                refreshTokenExpiration)
          /\ IF ~Falsy(f.record.user_id)
             THEN frame' = [frame EXCEPT ![p] = [f EXCEPT !.pc = "last_access"]]
             ELSE frame' = [frame EXCEPT ![p] = refreshResult(f)]
    /\ UNCHANGED <<users, consumed, auth_login_attempts, now, issued, failures,
                   calls>>

\* lines 352-361: last_access of the session's user, then the return
refresh_last_access(p) ==
    /\ frame[p].op = "refresh" /\ frame[p].pc = "last_access"
    /\ users' = [users EXCEPT ![frame[p].record.user_id].last_access = now]
    /\ frame' = [frame EXCEPT ![p] = refreshResult(frame[p])]
    /\ UNCHANGED <<sessions, consumed, auth_login_attempts, now, nextToken,
                   issued, failures, calls>>

\* ----------------------------------------------------------------- logout
\* lines 365-381: the session's user (inner join): is there a row
logoutSelect(token) ==
    \E s \in sessions : s.token = token /\ s.user \in Users

\* line 389: .delete().from('directus_sessions').where('token', refreshToken)
deleteSession(rows, token) == {s \in rows : s.token # token}

\* line 364: the call
logout(p) ==
    /\ freeSlot(p)
    /\ \E refreshToken \in Presentable :
         frame' = [frame EXCEPT ![p] =
             [IdleFrame EXCEPT !.op = "logout", !.pc = "select",
                               !.refreshToken = refreshToken,
                               !.after = followsLogout(p, refreshToken)]]
    /\ calls' = calls + 1
    /\ UNCHANGED Others

\* lines 365-383: look the session's user up; no row, nothing to do
logout_select(p) ==
    /\ frame[p].op = "logout" /\ frame[p].pc = "select"
    /\ frame' = [frame EXCEPT ![p] =
           IF logoutSelect(frame[p].refreshToken)
           THEN [@ EXCEPT !.record = [NoRecord EXCEPT !.found = TRUE],
                          !.pc = "delete"]
           ELSE [@ EXCEPT !.pc = "done", !.result.kind = "ok"]]
    /\ UNCHANGED <<Others, calls>>

\* lines 384-390: provider.logout, then the row is deleted
logout_delete(p) ==
    /\ frame[p].op = "logout" /\ frame[p].pc = "delete"
    /\ sessions' = deleteSession(sessions, frame[p].refreshToken)
    /\ frame' = [frame EXCEPT ![p] =
           [@ EXCEPT !.pc = "done", !.result.kind = "ok"]]
    /\ UNCHANGED <<users, consumed, auth_login_attempts, now, nextToken,
                   issued, failures, calls>>

\* ------------------------------------------------------------ environment
\* time passes
Tick ==
    /\ now < MaxTime
    /\ now' = now + 1
    /\ UNCHANGED <<users, sessions, consumed, auth_login_attempts,
                   nextToken, issued, failures, frame, calls>>

\* an administrator changes directus_settings.auth_login_attempts
UpdateSettings ==
    /\ \E v \in {NullInt} \cup 1..MaxBudget :
         /\ v # auth_login_attempts
         /\ auth_login_attempts' = v
    /\ UNCHANGED <<users, sessions, consumed, now, nextToken, issued,
                   failures, frame, calls>>

\* the steps of the three handlers
Handlers ==
    \E p \in Proc :
         \/ login(p)
         \/ login_select(p)
         \/ login_settings(p)
         \/ login_consume(p)
         \/ login_suspend(p)
         \/ login_limiterSet(p)
         \/ login_provider(p)
         \/ login_insert(p)
         \/ login_sweep(p)
         \/ login_last_access(p)
         \/ login_reset(p)
         \/ login_stall(p)
         \/ refresh(p)
         \/ refresh_select(p)
         \/ refresh_provider(p)
         \/ refresh_update(p)
         \/ refresh_last_access(p)
         \/ logout(p)
         \/ logout_select(p)
         \/ logout_delete(p)
         \/ Return(p)

Next ==
    \/ Handlers
    \/ Tick
    \/ UpdateSettings

Spec == Init /\ [][Next]_vars

\* the same requests while nobody edits the settings
NextFixedBudget ==
    \/ Handlers
    \/ Tick

SpecFixedBudget == Init /\ [][NextFixedBudget]_vars

\* lines 206-233: an awaited store call of login rejects (the insert, the
\* sweep, the activity record, the last_access update, the limiter reset).
\* Nothing catches it and nothing is undone: login throws the store's error
\* with whatever it has written so far.
login_storeError(p) ==
    /\ frame[p].op = "login"
    /\ frame[p].pc \in {"insert", "sweep", "last_access", "reset"}
    /\ frame' = [frame EXCEPT ![p] =
           [@ EXCEPT !.pc = "done", !.result.kind = "ServiceUnavailable"]]
    /\ UNCHANGED <<Others, calls>>

\* the requests with a record store that can fail under login
NextStoreErrors ==
    \/ Handlers
    \/ Tick
    \/ \E p \in Proc : login_storeError(p)

SpecStoreErrors == Init /\ [][NextStoreErrors]_vars

\* ================================================================= claims
\* the login call in slot p has returned or thrown
loginDone(p) == frame[p].op = "login" /\ frame[p].pc = "done"

C2_LockoutAfterBudget ==
    \A p \in Proc :
        (/\ loginDone(p)
         /\ frame[p].allowedAttempts # NullInt
         /\ frame[p].priorFailures >= frame[p].allowedAttempts
         /\ frame[p].password = UserRow(frame[p].id).password
         /\ users[frame[p].id].tfa_secret # Null => frame[p].otp = GoodOTP)
        => /\ frame[p].result.kind = "UserSuspended"
           /\ users[frame[p].id].status = "suspended"

\* ---------------------------------------------------------------------- C3
\* C3: a login call in which the limiter rejected the consume (and which so
\* suspended the user) issues no refresh token, creates no session row and
\* does not end in success.
C3_NoSuccessAfterRejection ==
    \A p \in Proc :
        (frame[p].op = "login" /\ frame[p].rejected)
        => /\ frame[p].result.kind # "ok"
           /\ frame[p].newRefreshToken = NoToken
           /\ \A s \in sessions : s.token # frame[p].newRefreshToken

\* ---------------------------------------------------------------------- C4
\* the refresh calls in slots p and q presented the same token and both ended
sameTokenRefreshes(p, q) ==
    /\ p # q
    /\ frame[p].op = "refresh" /\ frame[p].pc = "done"
    /\ frame[q].op = "refresh" /\ frame[q].pc = "done"
    /\ frame[p].refreshToken = frame[q].refreshToken

\* C4: of two refresh calls with the same refresh token at most one succeeds
\* (the other fails with InvalidCredentials), and the token a successful call
\* returned is the one the session row holds.
C4_OneWinner ==
    \A p, q \in Proc :
        sameTokenRefreshes(p, q)
        => /\ ~(frame[p].result.kind = "ok" /\ frame[q].result.kind = "ok")
           /\ frame[p].result.kind = "ok"
                 => frame[q].result.kind = "InvalidCredentials"

\* ---------------------------------------------------------------------- C5
\* the login in slot p has inserted its session row and run its sweep
loginSwept(p) ==
    /\ frame[p].op = "login"
    /\ frame[p].pc \in {"last_access", "reset", "stall", "done"}
    /\ frame[p].newRefreshToken # NoToken

\* the row the login in slot p is to leave: its token, its user, and an expiry
\* of issue time + TTL
hasLoginRow(p) ==
    \E s \in sessions :
        /\ s.token = frame[p].newRefreshToken
        /\ s.user = frame[p].user.id
        /\ s.share = Null
        /\ s.expires = frame[p].issuedAt + REFRESH_TOKEN_TTL

\* C5 as stated: whenever login returns successfully the store holds its row
\* (token, user, expiry = issue time + TTL), and the call's own sweep has not
\* removed it.
C5_SessionRowExists ==
    \A p \in Proc :
        (loginDone(p) /\ frame[p].result.kind = "ok")
        => /\ hasLoginRow(p)
           /\ frame[p].result.refreshToken = frame[p].newRefreshToken

\* C5 amended: from its own sweep to its successful return, and as long as the
\* clock has not passed issue time + TTL, the store holds the login's row: the
\* returned token, the logged-in user, expiry = issue time + TTL.  The sweep
\* (the call's own or another login's) removes the row only once it has expired.
C5_SessionRowWhileUnexpired ==
    \A p \in Proc :
        (loginSwept(p) /\ now <= frame[p].issuedAt + REFRESH_TOKEN_TTL)
        => /\ hasLoginRow(p)
           /\ frame[p].pc = "done" => frame[p].result.refreshToken = frame[p].newRefreshToken

\* a login has returned its tokens after the clock moved, and its row is there
C5_Witness ==
    \E p \in Proc :
        /\ loginDone(p)
        /\ frame[p].result.kind = "ok"
        /\ now > frame[p].issuedAt
        /\ hasLoginRow(p)

\* ---------------------------------------------------------------------- C6
\* C6: a refresh with a token, called after a logout with that token has
\* completed, fails with InvalidCredentials, for a user-based and for a
\* share-based session alike.
C6_RefreshAfterLogoutFails ==
    \A p \in Proc :
        (frame[p].op = "refresh" /\ frame[p].pc = "done" /\ frame[p].after)
        => frame[p].result.kind = "InvalidCredentials"

\* ---------------------------------------------------------------------- C7
\* the login in slot p has emitted success and is about to return, or has
loginSucceeded(p) ==
    /\ frame[p].op = "login"
    /\ frame[p].pc \in {"stall", "done"}
    /\ frame[p].result.kind = "ok"

\* C7 as stated, taken where no other login call shares the limiter with this
\* one: after a successful login the user's consumed points are zero, whatever
\* they were before and whatever budget the call read, null included.
C7_CounterZeroAfterSuccess ==
    \A p \in Proc :
        (loginSucceeded(p) /\ \A q \in Proc \ {p} : frame[q].op # "login")
        => consumed[frame[p].user.id] = 0

\* C7 amended: the step of a successful login that follows the success event
\* leaves the user's consumed points at zero when the budget the call read is
\* not null, and leaves them as they were when it is null; from there to the
\* return the call does not touch them (a concurrent login's consume may).
C7_ResetUnlessBudgetNull ==
    [][\A p \in Proc :
          (/\ frame[p].op = "login" /\ frame[p].pc = "reset"
           /\ frame'[p].pc # "reset")
          => /\ frame'[p].pc = "stall" /\ frame'[p].result.kind = "ok"
             /\ consumed'[frame[p].user.id] =
                   IF frame[p].allowedAttempts # NullInt
                   THEN 0 ELSE consumed[frame[p].user.id]]_vars

\* a successful login that read a budget is about to return, the key at zero
C7_Witness ==
    \E p \in Proc :
        /\ loginSucceeded(p)
        /\ frame[p].allowedAttempts # NullInt
        /\ ~frame[p].rejected
        /\ consumed[frame[p].user.id] = 0

\* ---------------------------------------------------------------------- C8
\* the login in slot p is for a user with a second-factor secret, and has read
\* the password and the one-time code of the request
secondFactorLogin(p) ==
    /\ frame[p].op = "login"
    /\ frame[p].otp # Unread
    /\ frame[p].user.tfa_secret = "tfa"

\* C8: for a user with an enrolled second-factor secret whose credential the
\* provider accepted: with no one-time code (absent or empty) the login fails
\* with InvalidOTP; a code the verifier rejects yields InvalidOTP; in both
\* cases no refresh token is made and no session row written; and the login
\* succeeds (or gets as far as the session row) only with the code the
\* verifier accepts.
C8_SecondFactor ==
    \A p \in Proc :
        secondFactorLogin(p)
        => /\ (frame[p].password = "secret" /\ frame[p].otp \in {Undefined, ""})
                 => /\ frame[p].result.kind = "InvalidOTP"
                    /\ frame[p].result.message = "required"
           /\ (frame[p].password = "secret" /\ frame[p].otp = "000000")
                 => /\ frame[p].result.kind = "InvalidOTP"
                    /\ frame[p].result.message = "invalid"
           /\ frame[p].result.kind = "InvalidOTP"
                 => /\ frame[p].newRefreshToken = NoToken
                    /\ frame[p].result.refreshToken = NoToken
                    /\ frame[p].emitted = <<"fail">>
           /\ (frame[p].result.kind = "ok" \/ frame[p].newRefreshToken # NoToken)
                 => frame[p].otp = GoodOTP

\* a login with an empty one-time code has thrown InvalidOTP
C8_Witness ==
    \E p \in Proc :
        /\ secondFactorLogin(p)
        /\ frame[p].pc = "done"
        /\ frame[p].otp = ""
        /\ frame[p].result.kind = "InvalidOTP"

\* ---------------------------------------------------------------------- C9
\* C9: the step of a refresh that writes the new token rotates the session in
\* place: the number of rows is unchanged, a row now holds the new token with
\* expiry now + TTL, and no row holds the presented token any more.
C9_RotatesInPlace ==
    [][\A p \in Proc :
          (/\ frame[p].op = "refresh" /\ frame[p].pc = "update"
           /\ frame'[p].pc # "update")
          => /\ Cardinality(sessions') = Cardinality(sessions)
             /\ \E s \in sessions' :
                    /\ s.token = frame'[p].newRefreshToken
                    /\ s.expires = now + REFRESH_TOKEN_TTL
             /\ \A s \in sessions' : s.token # frame[p].refreshToken]_vars

\* --------------------------------------------------------------------- C10
\* the refresh in slot p has built its token payload
refreshSigned(p) ==
    /\ frame[p].op = "refresh"
    /\ \/ frame[p].pc \in {"update", "last_access"}
       \/ (frame[p].pc = "done" /\ frame[p].result.kind = "ok")

\* C10: the payload of a refresh on a share-based session carries the share's
\* role and share_scope {collection, item}, and the returned id is null when
\* the session has no user; the payload of a user-based session carries the
\* user's role and no share_scope.
C10_RefreshPayload ==
    \A p \in Proc :
        refreshSigned(p)
        => LET r == frame[p].record
               t == frame[p].result.accessToken
           IN IF r.share_id \in Shares
              THEN /\ t.role = ShareRow(r.share_id).role
                   /\ t.share_scope = <<ShareRow(r.share_id).collection,
                                        ShareRow(r.share_id).item>>
                   /\ (frame[p].pc = "done" /\ r.user_id = Null)
                         => frame[p].result.id = Null
              ELSE /\ t.role = UserRow(r.user_id).role
                   /\ t.share_scope = <<>>

\* --------------------------------------------------------------------- C11
\* the login call in slot p is at its status check and finds no user for
\* (identifier, provider name), or a user whose stored status is not active
noActiveUser(p) ==
    \/ frame[p].id \notin Users
    \/ UserRow(frame[p].id).provider # frame[p].providerName
    \/ users[frame[p].id].status # "active"

\* C11: a login call that finds no user for the (identifier, provider name)
\* pair, or a user whose status is not active, fails at the status check,
\* before any rate-limit consume or credential check: with UserSuspended
\* exactly when the matched user's status is suspended, with
\* InvalidCredentials otherwise; it has read neither the budget nor the
\* credential and has consumed no point.
C11_StatusCheckFirst ==
    [][\A p \in Proc :
          (/\ frame[p].op = "login" /\ frame[p].pc = "select"
           /\ frame'[p] # frame[p]
           /\ noActiveUser(p))
          => /\ frame'[p].pc = "stall"
             /\ frame'[p].result.kind =
                    IF /\ frame[p].id \in Users
                       /\ UserRow(frame[p].id).provider = frame[p].providerName
                       /\ users[frame[p].id].status = "suspended"
                    THEN "UserSuspended" ELSE "InvalidCredentials"
             /\ frame'[p].password = Unread
             /\ frame'[p].allowedAttempts = NullInt
             /\ ~frame'[p].rejected
             /\ consumed' = consumed]_vars

\* one login found a suspended user and threw UserSuspended, another asked
\* for an existing user under a provider that is not the user's and threw
\* InvalidCredentials; neither read the credential
C11_Witness ==
    \E p, q \in Proc :
        /\ loginDone(p) /\ loginDone(q)
        /\ frame[p].result.kind = "UserSuspended"
        /\ frame[p].password = Unread
        /\ frame[q].id \in Users
        /\ frame[q].providerName \in Providers
        /\ frame[q].providerName # UserRow(frame[q].id).provider
        /\ frame[q].result.kind = "InvalidCredentials"
        /\ frame[q].password = Unread

\* --------------------------------------------------------------------- C12
\* every session row holding the token refresh p presents (if any) is past
\* its expiry, or belongs to a share whose expiry is set and past
noLiveSession(p) ==
    \A s \in sessions :
        s.token = frame[p].refreshToken
        => \/ s.expires < now
           \/ /\ s.share \in Shares
              /\ ShareRow(s.share).date_expired # NullInt
              /\ ShareRow(s.share).date_expired < now

\* C12: refresh throws InvalidCredentials and leaves sessions, users and
\* counters as they are when the token is missing or empty, matches no
\* session row, matches an expired session, or matches a share-based session
\* whose share has a non-null expiry in the past; an unexpired session of a
\* share with null expiry is not rejected.
C12_RefreshRejects ==
    [][\A p \in Proc :
          /\ (frame[p].op = "idle" /\ frame'[p].op = "refresh"
                 /\ frame'[p].refreshToken = NoToken)
             => /\ frame'[p].pc = "done"
                /\ frame'[p].result.kind = "InvalidCredentials"
                /\ <<sessions, users, consumed>>' = <<sessions, users, consumed>>
          /\ (frame[p].op = "refresh" /\ frame[p].pc = "select"
                 /\ frame'[p] # frame[p])
             => IF noLiveSession(p)
                THEN /\ frame'[p].pc = "done"
                     /\ frame'[p].result.kind = "InvalidCredentials"
                     /\ frame'[p].result.refreshToken = NoToken
                     /\ <<sessions, users, consumed, nextToken>>'
                            = <<sessions, users, consumed, nextToken>>
                ELSE (\E s \in sessions :
                         /\ s.token = frame[p].refreshToken
                         /\ s.expires >= now
                         /\ s.share \in Shares
                         /\ ShareRow(s.share).date_expired = NullInt)
                     => frame'[p].pc = "provider"]_vars

\* a refresh was rejected for its share's expiry alone: the session row it
\* presented is still there and not expired
C12_Witness ==
    \E p \in Proc :
        /\ frame[p].op = "refresh" /\ frame[p].pc = "done"
        /\ frame[p].result.kind = "InvalidCredentials"
        /\ \E s \in sessions :
              /\ s.token = frame[p].refreshToken
              /\ s.expires >= now
              /\ s.share \in Shares
              /\ ShareRow(s.share).date_expired # NullInt
              /\ ShareRow(s.share).date_expired < now

\* --------------------------------------------------------------------- C13
\* C13: in every reachable state of the session store, whatever login,
\* refresh and logout calls have run and however they interleaved, no two
\* session rows hold the same refresh token, and every row references
\* exactly one of a user or a share.
C13_SessionRows ==
    /\ \A s, t \in sessions : s.token = t.token => s = t
    /\ \A s \in sessions :
          \/ s.user \in Users /\ s.share = Null
          \/ s.user = Null /\ s.share \in Shares

\* a login has inserted its row and a refresh has rotated another one
C13_Witness ==
    \E p, q \in Proc :
        /\ loginDone(p) /\ frame[p].result.kind = "ok"
        /\ frame[q].op = "refresh" /\ frame[q].pc = "done"
        /\ frame[q].result.kind = "ok"
        /\ \E s, t \in sessions :
              /\ s.token = frame[p].newRefreshToken
              /\ t.token = frame[q].newRefreshToken
              /\ s # t

\* --------------------------------------------------------------------- C14
\* C14 as stated: a login call in which the limiter rejected the consume
\* ends with the user's stored status suspended and the user's counter at 0,
\* and not with the limiter's rejection.
C14_SuspendedAndZeroAtEnd ==
    \A p \in Proc :
        (loginDone(p) /\ frame[p].rejected)
        => /\ users[frame[p].id].status = "suspended"
           /\ consumed[frame[p].id] = 0
           /\ frame[p].result.kind # "RateLimitExceeded"

\* C14 amended: when the limiter rejects the consume, the call first stores
\* status suspended, then sets the user's counter to zero, then goes on to
\* the credential check; the rejection is never what the call throws, and
\* the status is still suspended when the call ends.  The counter is zero
\* right after the reset; a concurrent login of the same user that passed
\* its status check earlier may consume a point after it.
C14_SuspendThenReset ==
    [][\A p \in Proc :
          LET f == frame[p]
              g == frame'[p]
          IN /\ (f.op = "login" /\ f.pc = "consume" /\ g # f /\ g.rejected)
                => g.pc = "suspend" /\ g.result = f.result
             /\ (f.op = "login" /\ f.pc = "suspend" /\ g # f)
                => /\ users'[f.id].status = "suspended"
                   /\ consumed' = consumed
                   /\ g.pc = "limiterSet"
             /\ (f.op = "login" /\ f.pc = "limiterSet" /\ g # f)
                => /\ consumed'[f.id] = 0
                   /\ users'[f.id].status = "suspended"
                   /\ g.pc = "provider"
             /\ (g.op = "login" /\ g.rejected
                    /\ g.pc \in {"provider", "insert", "sweep", "last_access",
                                 "reset", "stall", "done"})
                => /\ users'[g.id].status = "suspended"
                   /\ g.result.kind \in {"pending", "ok", "InvalidCredentials",
                                         "InvalidOTP"}]_vars

\* a rejected call has suspended the user, cleared the counter and ended
C14_Witness ==
    \E p \in Proc :
        /\ loginDone(p) /\ frame[p].rejected
        /\ users[frame[p].id].status = "suspended"
        /\ consumed[frame[p].id] = 0

onlyLoginsBeside(p) ==
    /\ calls = Cardinality({q \in Proc : frame[q].op # "idle"})
    /\ \A q \in Proc \ {p} : frame[q].op \in {"idle", "login"}

\* C16: the sweep of a login deletes only session rows whose expiry is
\* before the current time, and it makes no concurrent legitimate login or
\* refresh fail: a refresh that found its session unexpired, with nothing
\* but logins running beside it, ends with the refresh token it returns
\* stored in a session row, and the row a login has inserted is in the
\* store for as long as it has not expired.
C16_SweepHarmless ==
    [][\A p \in Proc :
          /\ (frame[p].op = "login" /\ frame[p].pc = "sweep"
                 /\ frame'[p] # frame[p])
             => \A s \in sessions \ sessions' : s.expires < now
          /\ (/\ frame[p].op = "refresh" /\ frame[p].pc # "done"
              /\ frame'[p].pc = "done" /\ frame'[p].result.kind = "ok"
              /\ now <= frame'[p].refreshTokenExpiration
              /\ onlyLoginsBeside(p))
             => \E s \in sessions' : s.token = frame'[p].result.refreshToken
          /\ (/\ frame'[p].op = "login"
              /\ frame'[p].newRefreshToken # NoToken
              /\ now' <= frame'[p].refreshTokenExpiration)
             => \E s \in sessions' : s.token = frame'[p].newRefreshToken]_vars

\* --------------------------------------------------------------------- C17
\* C17: a login call that fails at one of its suspension points leaves no
\* partial state: when the call has ended, either it returned its tokens and
\* its session row is in the store (for as long as it has not expired), or
\* no session row created by that call is in the store.
C17_NoPartialState ==
    \A p \in Proc :
        loginDone(p)
        => IF frame[p].result.kind = "ok"
           THEN now <= frame[p].refreshTokenExpiration
                => \E s \in sessions : s.token = frame[p].result.refreshToken
           ELSE \A s \in sessions :
                    s.token = NoToken \/ s.token # frame[p].newRefreshToken

loginFailed(p) ==
    /\ loginDone(p)
    /\ frame[p].result.kind \in {"UserSuspended", "InvalidCredentials",
                                 "InvalidOTP"}

\* C19 as stated: a login call that failed at the status check, the
\* provider's credential check or the second-factor check has created no
\* session row, has not updated last_access and has not reset the counter;
\* one that failed at the status check has also consumed no point and has
\* changed no status.
C19_FailedCallWritesNothing ==
    \A p \in Proc :
        loginFailed(p)
        => /\ frame[p].effects \cap {"session", "last_access", "reset"} = {}
           /\ frame[p].password = Unread => frame[p].effects = {}

\* C19 amended: a login call that failed at one of the three checks has
\* created no session row and has not updated last_access; it has reset the
\* counter only if the limiter rejected its consume, and then it has also
\* stored status suspended; a call that failed at the status check has
\* written nothing at all.
C19_FailedCallEffects ==
    \A p \in Proc :
        loginFailed(p)
        => /\ frame[p].effects \cap {"session", "last_access"} = {}
           /\ frame[p].newRefreshToken = NoToken
           /\ "reset" \in frame[p].effects <=> frame[p].rejected
           /\ "status" \in frame[p].effects <=> frame[p].rejected
           /\ "consume" \in frame[p].effects
                 <=> frame[p].allowedAttempts # NullInt
           /\ frame[p].password = Unread
                 => /\ frame[p].effects = {}
                    /\ frame[p].allowedAttempts = NullInt

\* a call failed at the credential check after it had consumed a point
\* within the budget: it wrote nothing else
C19_Witness ==
    \E p \in Proc :
        /\ loginFailed(p)
        /\ frame[p].password # Unread
        /\ frame[p].effects = {"consume"}

\* --------------------------------------------------------------------- C20
\* C20: a login call that read a null attempt budget consumes no point,
\* never sets the user's status to suspended and never resets or otherwise
\* changes the user's counter: no step of such a call changes a counter or
\* a status, whether the call fails or succeeds.
C20_NullBudgetIdle ==
    [][\A p \in Proc :
          (/\ frame[p].op = "login" /\ frame[p].pc # "done"
           /\ frame'[p] # frame[p]
           /\ frame'[p].allowedAttempts = NullInt)
          => /\ consumed' = consumed
             /\ \A u \in Users : users'[u].status = users[u].status
             /\ ~frame'[p].rejected
             /\ frame'[p].effects \cap {"consume", "status", "reset"} = {}
             /\ frame'[p].pc \notin {"consume", "suspend", "limiterSet"}]_vars

\* with a null budget one login has failed at the credential check and
\* another has succeeded, and the point consumed earlier is still there
C20_Witness ==
    \E p, q \in Proc :
        /\ loginFailed(p) /\ frame[p].password # Unread
        /\ frame[p].allowedAttempts = NullInt
        /\ loginDone(q) /\ frame[q].result.kind = "ok"
        /\ frame[q].allowedAttempts = NullInt
        /\ frame[p].id = frame[q].id
        /\ consumed[frame[p].id] = 1

====
